---- MODULE Spec2Model ----
(***************************************************************************)
(* Model of the Thor Commerce better-auth plugin: the three provider calls *)
(* (callIdpLogin, getUserInfo, refreshAccessToken), session bootstrap      *)
(* (authenticateAndCreateSession), the token-lifecycle check               *)
(* (getAccessToken) and the two host integration points of index.ts (the   *)
(* customerSignIn endpoint and the session-read after-hook).               *)
(*                                                                         *)
(* Time is the value of Date.now() in milliseconds.  Every await on fetch  *)
(* is a suspension point: the request is sent in one step and its outcome  *)
(* is consumed in a later step, with the clock and the other requests free *)
(* to move in between.                                                     *)
(***************************************************************************)
EXTENDS Integers, Sequences, FiniteSets, TLC

\* ------------------------------------------------------------------ bounds
\* The clock advances in steps of TickMs up to MaxTicks steps.
TickMs == 60000
MaxTicks == 3
\* Number of sign-in attempts the environment makes.
MaxSignIns == 2

\* --------------------------------------------------------------- constants
MinutesToMs == 60 * 1000
SecondsToMs == 1000
DefaultRefreshThresholdMinutes == 5

\* -------------------------------------------------------------------- state
VARIABLES
  now,       \* Date.now(), in ms
  config,    \* the ThorAuthPluginConfig the plugin was built with
  cookie,    \* the SessionData persisted by setSessionCookie, or Null
  signIn,    \* the customerSignIn request: position and locals
  signIns,   \* number of sign-in requests started
  reader,    \* per session-read request: position and hook locals
  lastGrant, \* the token set, and the `now` captured with it, of the latest
             \* Login or Refresh response that was folded into the cookie
  boot,      \* the session as session bootstrap created it
  call,      \* a single application of one of the plugin's functions outside
             \* a request: its arguments and, once it has run, its result
  provider   \* the identity provider at the other end of fetch: the token
             \* sets it has issued, each with the instant of issue, and its
             \* replies that are still on their way back

vars == <<now, config, cookie, signIn, signIns, reader, lastGrant, boot, call, provider>>

\* ------------------------------------------------------ universes of input
\* The concurrent session-read requests.
Readers == {"a", "b"}
\* Plugin configurations: refreshThresholdMinutes is optional.
Configs ==
  { [apiEndpoint |-> "https://api/graphql"],
    [apiEndpoint |-> "https://api/graphql", refreshThresholdMinutes |-> 1] }

\* JavaScript null / undefined, and an exception propagating out of a call.
Null == [null |-> TRUE]
Undefined == [undefined |-> TRUE]
Threw == [threw |-> TRUE]

\* customerAccessToken nodes a provider response can carry (expiresIn is in
\* seconds).  The provider is free to answer with any of them at any time.
TokenNodes ==
  { [accessToken |-> "T1", refreshToken |-> "R1", expiresIn |-> 360],
    [accessToken |-> "T2", refreshToken |-> "R2", expiresIn |-> 60] }

\* customer nodes a provider response can carry.
Customers ==
  { [id |-> "u1", firstName |-> "Ada", lastName |-> "Lovelace", email |-> "ada@example.com",
     customerGroups |-> [nodes |-> << [id |-> "g1", name |-> "VIP"], [id |-> "g2", name |-> "B2B"] >>]],
    [id |-> "u2", firstName |-> "Alan", lastName |-> "Turing", email |-> "alan@example.com",
     customerGroups |-> Undefined] }

\* What `await fetch(...)` followed by `await res.json()` can do: the fetch
\* promise rejects (transport failure), or resolves with res.ok false, or
\* resolves with res.ok true and a body that is not JSON (res.json() rejects),
\* or with a JSON body whose payload node is null or present.
FetchRejects == [rejects |-> TRUE, ok |-> FALSE, jsonThrows |-> FALSE, node |-> Null]
FetchNotOk == [rejects |-> FALSE, ok |-> FALSE, jsonThrows |-> FALSE, node |-> Null]
FetchBadJson == [rejects |-> FALSE, ok |-> TRUE, jsonThrows |-> TRUE, node |-> Null]
FetchNoNode == [rejects |-> FALSE, ok |-> TRUE, jsonThrows |-> FALSE, node |-> Null]
FetchNode(n) == [rejects |-> FALSE, ok |-> TRUE, jsonThrows |-> FALSE, node |-> n]
FetchFailures == {FetchRejects, FetchNotOk, FetchBadJson, FetchNoNode}
TokenFetchOutcomes == FetchFailures \cup {FetchNode(n) : n \in TokenNodes}
CustomerFetchOutcomes == FetchFailures \cup {FetchNode(c) : c \in Customers}

\* ---------------------------------------------------------- provider calls
\* callIdpLogin, after its fetch has settled as res.
callIdpLogin(res) ==
  IF res.rejects THEN Threw
  ELSE IF ~res.ok THEN Null
  ELSE IF res.jsonThrows THEN Threw
  ELSE IF res.node = Null THEN Null
  ELSE [accessToken |-> res.node.accessToken,
        refreshToken |-> res.node.refreshToken,
        expiresIn |-> res.node.expiresIn]

\* customer.customerGroups?.nodes?.map(...) ?? []
mapGroups(customer) ==
  IF customer.customerGroups = Undefined \/ customer.customerGroups = Null THEN << >>
  ELSE IF "nodes" \notin DOMAIN customer.customerGroups THEN << >>
  ELSE [i \in 1..Len(customer.customerGroups.nodes) |->
          [id |-> customer.customerGroups.nodes[i].id,
           name |-> customer.customerGroups.nodes[i].name]]

\* getUserInfo, after its fetch has settled as res.
getUserInfo(res) ==
  IF res.rejects THEN Threw
  ELSE IF ~res.ok THEN Null
  ELSE IF res.jsonThrows THEN Threw
  ELSE IF res.node = Null THEN Null
  ELSE [id |-> res.node.id,
        firstName |-> res.node.firstName,
        lastName |-> res.node.lastName,
        email |-> res.node.email,
        groups |-> mapGroups(res.node)]

\* getUserInfo as src/helpers/user-info.ts defines it, after its fetch has
\* settled as res: the returned object has no groups property.
getUserInfoWithoutGroups(res) ==
  IF res.rejects THEN Threw
  ELSE IF ~res.ok THEN Null
  ELSE IF res.jsonThrows THEN Threw
  ELSE IF res.node = Null THEN Null
  ELSE [id |-> res.node.id,
        firstName |-> res.node.firstName,
        lastName |-> res.node.lastName,
        email |-> res.node.email]

\* refreshAccessToken, after its fetch has settled as res.
refreshAccessToken(res) ==
  IF res.rejects THEN Threw
  ELSE IF ~res.ok THEN Null
  ELSE IF res.jsonThrows THEN Threw
  ELSE IF res.node = Null THEN Null
  ELSE [accessToken |-> res.node.accessToken,
        refreshToken |-> res.node.refreshToken,
        expiresIn |-> res.node.expiresIn]

\* ------------------------------------------------------- session bootstrap
\* Variant of InvalidCredentials reporting the profile failure instead.
InvalidCredentialsAs500 == [error |-> "Failed to fetch user info", status |-> 500]

InvalidCredentials == [error |-> "Invalid credentials", status |-> 401]
ProfileFetchFailed == [error |-> "Failed to fetch user info", status |-> 500]

\* Variant of expires that adds the seconds without converting them.
expiresUnconverted(n, expiresIn) == n + expiresIn

\* new Date(now + expiresIn * 1000), as epoch milliseconds
expires(n, expiresIn) == n + expiresIn * SecondsToMs

\* Variant of sessionData that reads the clock when the literal is built,
\* after the profile has been fetched.
sessionDataStampedWhenBuilt(login, n, userInfo) ==
  [user |-> [id |-> userInfo.id,
             email |-> userInfo.email,
             name |-> userInfo.firstName \o " " \o userInfo.lastName,
             createdAt |-> now,
             updatedAt |-> now,
             emailVerified |-> TRUE,
             groups |-> userInfo.groups],
   session |-> [id |-> login.refreshToken,
                userId |-> userInfo.id,
                createdAt |-> now,
                updatedAt |-> now,
                token |-> login.accessToken,
                expiresAt |-> expires(now, login.expiresIn)]]

\* The SessionData literal built by authenticateAndCreateSession from the
\* Login result, the `now` it captured and the fetched profile.
sessionData(login, n, userInfo) ==
  [user |-> [id |-> userInfo.id,
             email |-> userInfo.email,
             name |-> userInfo.firstName \o " " \o userInfo.lastName,
             createdAt |-> n,
             updatedAt |-> n,
             emailVerified |-> TRUE,
             groups |-> userInfo.groups],
   session |-> [id |-> login.refreshToken,
                userId |-> userInfo.id,
                createdAt |-> n,
                updatedAt |-> n,
                token |-> login.accessToken,
                expiresAt |-> expires(n, login.expiresIn)]]

\* ------------------------------------------------- token-lifecycle check
thresholdMs(refreshThresholdMinutes) == refreshThresholdMinutes * MinutesToMs
timeUntilExpiry(session, n) == session.expiresAt - n

\* Variant of stillValid with the comparison reversed.
stillValidReversed(session, n, refreshThresholdMinutes) ==
  timeUntilExpiry(session, n) < thresholdMs(refreshThresholdMinutes)

\* Variant of stillValid with the operands of the subtraction swapped.
stillValidSwappedOperands(session, n, refreshThresholdMinutes) ==
  n - session.expiresAt < thresholdMs(refreshThresholdMinutes)

\* Variant of stillValid that also accepts a token whose remaining validity
\* equals the threshold.
stillValidAtThreshold(session, n, refreshThresholdMinutes) ==
  timeUntilExpiry(session, n) >= thresholdMs(refreshThresholdMinutes)

\* getAccessToken's test for returning the current token without a refresh
stillValid(session, n, refreshThresholdMinutes) ==
  timeUntilExpiry(session, n) > thresholdMs(refreshThresholdMinutes)

\* { accessToken: session.token, refreshed: false }
notRefreshed(session) ==
  [accessToken |-> session.token, refreshed |-> FALSE, session |-> Undefined]

\* Variant of updatedSession that leaves updatedAt as it was.
updatedSessionStaleStamp(session, n, refreshed) ==
  [session EXCEPT !.id = refreshed.refreshToken,
                  !.token = refreshed.accessToken,
                  !.expiresAt = n + refreshed.expiresIn * SecondsToMs]

\* Variant of updatedSession that replaces the access token only.
updatedSessionKeepsId(session, n, refreshed) ==
  [session EXCEPT !.token = refreshed.accessToken,
                  !.expiresAt = n + refreshed.expiresIn * SecondsToMs,
                  !.updatedAt = n]

\* Variant of updatedSession that also restamps createdAt.
updatedSessionRestamped(session, n, refreshed) ==
  [session EXCEPT !.id = refreshed.refreshToken,
                  !.token = refreshed.accessToken,
                  !.expiresAt = n + refreshed.expiresIn * SecondsToMs,
                  !.createdAt = n,
                  !.updatedAt = n]

\* Variant of updatedSession that extends the old expiry instead of
\* deriving the new one from the captured now.
updatedSessionExtends(session, n, refreshed) ==
  [session EXCEPT !.id = refreshed.refreshToken,
                  !.token = refreshed.accessToken,
                  !.expiresAt = session.expiresAt + refreshed.expiresIn * SecondsToMs,
                  !.updatedAt = n]

\* Variant of updatedSession that replaces the token pair and leaves the
\* expiry of the old access token in place.
updatedSessionKeepsExpiry(session, n, refreshed) ==
  [session EXCEPT !.id = refreshed.refreshToken,
                  !.token = refreshed.accessToken,
                  !.updatedAt = n]

\* { ...session, id, token, expiresAt, updatedAt }
updatedSession(session, n, refreshed) ==
  [session EXCEPT !.id = refreshed.refreshToken,
                  !.token = refreshed.accessToken,
                  !.expiresAt = n + refreshed.expiresIn * SecondsToMs,
                  !.updatedAt = n]

\* Variant of getAccessTokenResume that reads the clock again when the
\* refresh call has settled instead of using the `now` captured at entry.
getAccessTokenResumeReadsClockAgain(session, n, refreshed) ==
  IF refreshed = Threw THEN Threw
  ELSE IF refreshed = Null THEN notRefreshed(session)
  ELSE [accessToken |-> refreshed.accessToken,
        refreshed |-> TRUE,
        session |-> updatedSession(session, now, refreshed)]

\* getAccessToken from the point where `await refreshAccessToken(...)`
\* settles with result `refreshed` (a token set, Null, or Threw).
getAccessTokenResume(session, n, refreshed) ==
  IF refreshed = Threw THEN Threw
  ELSE IF refreshed = Null THEN notRefreshed(session)
  ELSE [accessToken |-> refreshed.accessToken,
        refreshed |-> TRUE,
        session |-> updatedSession(session, n, refreshed)]

\* getAccessToken's parameter `refreshThresholdMinutes: number = 5`, for a
\* call whose optional trailing arguments are `args`
DefaultThresholdArgument == 5
thresholdArgument(args) ==
  IF "refreshThresholdMinutes" \in DOMAIN args
  THEN args.refreshThresholdMinutes
  ELSE DefaultThresholdArgument

\* Variant of refreshThreshold that always takes the default.
refreshThresholdIgnoresConfig(cfg) == DefaultRefreshThresholdMinutes

\* const refreshThreshold = config.refreshThresholdMinutes ?? 5
refreshThreshold(cfg) ==
  IF "refreshThresholdMinutes" \in DOMAIN cfg
  THEN cfg.refreshThresholdMinutes
  ELSE DefaultRefreshThresholdMinutes

\* String.prototype.includes on strings given as sequences of characters
includes(s, t) ==
  \E i \in 1..(Len(s) - Len(t) + 1) : SubSeq(s, i, i + Len(t) - 1) = t

GetSessionPath == <<"/", "g", "e", "t", "-", "s", "e", "s", "s", "i", "o", "n">>
SessionWord == <<"s", "e", "s", "s", "i", "o", "n">>

\* Variant of matcher that looks for the word at the start of the path.
matcherPrefixOnly(path) ==
  Len(path) >= Len(SessionWord) /\ SubSeq(path, 1, Len(SessionWord)) = SessionWord

\* Variant of matcher that accepts the exact path only.
matcherExactOnly(path) == path = GetSessionPath

\* The after-hook's matcher:
\* context.path === "/get-session" || context.path.includes("session")
matcher(path) == path = GetSessionPath \/ includes(path, SessionWord)

\* The hook handler's test that the response carries session data with
\* token info.
hasSessionData(responseData) ==
  /\ responseData # Null
  /\ "session" \in DOMAIN responseData
  /\ responseData.session # Null
  /\ "token" \in DOMAIN responseData.session
  /\ "expiresAt" \in DOMAIN responseData.session

\* if (result.refreshed && result.session), reached only when
\* getAccessToken did not throw
hookPersists(result) ==
  result # Threw /\ result.refreshed /\ result.session # Undefined

\* Variant of updatedSessionData that persists the session it was given.
updatedSessionDataStale(responseData, result) ==
  [user |-> responseData.user, session |-> responseData.session]

\* const updatedSessionData = { user: responseData.user, session: result.session }
updatedSessionData(responseData, result) ==
  [user |-> responseData.user, session |-> result.session]

\* What setSessionCookie is called with by the handler, Null if it is not.
hookWrites(responseData, result) ==
  IF hookPersists(result) THEN updatedSessionData(responseData, result) ELSE Null

\* Variant of hookResponse in which the handler has no catch.
hookResponseRethrows(responseData, result) ==
  IF result = Threw THEN Threw
  ELSE IF hookPersists(result)
  THEN [responseData EXCEPT !.session = result.session]
  ELSE responseData

\* Variant of hookResponse that persists the refreshed session but answers
\* with the response as the host produced it.
hookResponseOriginal(responseData, result) == responseData

\* The response the requester gets once the handler is through: the
\* ctx.json({...responseData, session: result.session}) of a refresh, the
\* host's own response otherwise (also when the try block threw).
hookResponse(responseData, result) ==
  IF result = Threw THEN responseData
  ELSE IF hookPersists(result)
  THEN [responseData EXCEPT !.session = result.session]
  ELSE responseData

\* console.warn in the catch block
hookWarns(result) == result = Threw

NoCall == [fn |-> "none"]

\* The provider when it is not observed: the outcome of every fetch is then
\* chosen in the step that consumes it.
NoReply == [none |-> TRUE]
NoProvider ==
  [grants |-> << >>, login |-> NoReply, refresh |-> [r \in Readers |-> NoReply]]

SignInIdle ==
  [pc |-> "idle", requests |-> << >>, pending |-> {}, idpLogin |-> Null, now |-> 0,
   userInfo |-> Null, result |-> Null, wrote |-> Null, response |-> Null]

ReaderIdle ==
  [pc |-> "idle", path |-> << >>, matched |-> FALSE, responseData |-> Null,
   now |-> 0, requests |-> << >>, refreshed |-> Null, result |-> Null,
   wrote |-> Null, response |-> Null, warned |-> FALSE]

Init ==
  /\ now = 0
  /\ config \in Configs
  /\ cookie = Null
  /\ signIn = SignInIdle
  /\ signIns = 0
  /\ reader = [r \in Readers |-> ReaderIdle]
  /\ lastGrant = Null
  /\ boot = Null
  /\ call = NoCall
  /\ provider = NoProvider

\* ---------------------------------------------------------------- requests
LoginRequest == [op |-> "CustomerAccessTokenCreate"]
\* Variant of ProfileRequest that sends no bearer credential.
ProfileRequestUnauthenticated(accessToken) == [op |-> "GetCustomer", bearer |-> ""]

ProfileRequest(accessToken) == [op |-> "GetCustomer", bearer |-> accessToken]
\* Variant of RefreshRequest that keeps presenting the first refresh token
\* the provider issued.
RefreshRequestFirstHandle(refreshToken) ==
  [op |-> "CustomerAccessTokenRefresh", refreshToken |-> "R1"]

RefreshRequest(refreshToken) ==
  [op |-> "CustomerAccessTokenRefresh", refreshToken |-> refreshToken]

\* ------------------------------------------------------------------- clock
Tick ==
  /\ now + TickMs <= MaxTicks * TickMs
  /\ now' = now + TickMs
  /\ UNCHANGED <<config, cookie, signIn, signIns, reader, lastGrant, boot, call, provider>>

\* ------------------------------------------------ customerSignIn endpoint
\* What the endpoint does with the outcome of authenticateAndCreateSession:
\* an exception propagates, an AuthError is answered with its status, a
\* SessionData is persisted and answered with {user, expiresAt}.
signInResponse(result) ==
  IF result = Threw THEN Threw
  ELSE IF "error" \in DOMAIN result
  THEN [body |-> [error |-> result.error], status |-> result.status]
  ELSE [body |-> [user |-> result.user, expiresAt |-> result.session.expiresAt],
        status |-> 200]

signInPersists(result) == result # Threw /\ "error" \notin DOMAIN result

\* The endpoint is called; authenticateAndCreateSession issues the Login
\* request and suspends.
SignInStart ==
  /\ signIn.pc = "idle"
  /\ signIns < MaxSignIns
  /\ cookie = Null
  /\ signIn' = [SignInIdle EXCEPT !.pc = "login", !.requests = <<LoginRequest>>,
                                  !.pending = {LoginRequest}]
  /\ signIns' = signIns + 1
  /\ UNCHANGED <<now, config, cookie, reader, lastGrant, boot, call, provider>>

\* authenticateAndCreateSession from the point where the Login fetch has
\* settled as res: failure ends the bootstrap, success captures `now` and
\* issues the Profile request.
LoginResumes(res) ==
  /\ signIn.pc = "login"
  /\ LET idpLogin == callIdpLogin(res) IN
       signIn' =
         IF idpLogin = Threw
         THEN [signIn EXCEPT !.pc = "done", !.pending = {},
                             !.idpLogin = Threw, !.result = Threw,
                             !.response = signInResponse(Threw)]
         ELSE IF idpLogin = Null
         THEN [signIn EXCEPT !.pc = "done", !.pending = {},
                             !.result = InvalidCredentials,
                             !.response = signInResponse(InvalidCredentials)]
         ELSE [signIn EXCEPT !.pc = "profile", !.idpLogin = idpLogin, !.now = now,
                             !.requests = Append(@, ProfileRequest(idpLogin.accessToken)),
                             !.pending = {ProfileRequest(idpLogin.accessToken)}]
  /\ UNCHANGED <<now, config, cookie, signIns, reader, lastGrant, boot, call>>

\* The Login fetch settles, with any outcome.
LoginSettles(res) == LoginResumes(res) /\ UNCHANGED provider

\* The Profile fetch settles: the bootstrap returns and the endpoint answers.
ProfileSettles(res) ==
  /\ signIn.pc = "profile"
  /\ LET userInfo == getUserInfo(res)
         result == IF userInfo = Threw THEN Threw
                   ELSE IF userInfo = Null THEN ProfileFetchFailed
                   ELSE sessionData(signIn.idpLogin, signIn.now, userInfo)
     IN /\ signIn' = [signIn EXCEPT !.pc = "done", !.pending = {},
                                    !.userInfo = userInfo,
                                    !.result = result,
                                    !.wrote = IF signInPersists(result) THEN result ELSE Null,
                                    !.response = signInResponse(result)]
        /\ IF signInPersists(result)
           THEN /\ cookie' = result
                /\ lastGrant' = [accessToken |-> signIn.idpLogin.accessToken,
                                 refreshToken |-> signIn.idpLogin.refreshToken,
                                 expiresIn |-> signIn.idpLogin.expiresIn,
                                 capturedAt |-> signIn.now]
                /\ boot' = result.session
           ELSE UNCHANGED <<cookie, lastGrant, boot>>
  /\ UNCHANGED <<now, config, signIns, reader, call, provider>>

\* The sign-in response has been delivered; the request is over.
SignInDone ==
  /\ signIn.pc = "done"
  /\ signIn' = SignInIdle
  /\ UNCHANGED <<now, config, cookie, signIns, reader, lastGrant, boot, call, provider>>

\* ------------------------------------------------- session-read after-hook
\* Paths of the requests that are answered with the session data: the
\* session read itself and an endpoint whose path lacks the word "session".
RequestPaths == { GetSessionPath, <<"/", "a", "d", "m", "i", "n", "/", "i", "m", "p", "e", "r", "s", "o", "n", "a", "t", "e", "-", "u", "s", "e", "r">> }

\* A request arrives: the host produces its response from the cookie; if
\* the matcher accepts the path the hook handler runs up to its first
\* suspension, otherwise the response goes out as it is.
ReadStart(r, path) ==
  /\ reader[r].pc = "idle"
  /\ LET responseData == cookie
         begun == [ReaderIdle EXCEPT !.path = path, !.matched = matcher(path),
                                     !.responseData = responseData]
     IN reader' = [reader EXCEPT ![r] =
         IF ~matcher(path)
         THEN [begun EXCEPT !.pc = "returned", !.response = responseData]
         ELSE IF ~hasSessionData(responseData)
         THEN [begun EXCEPT !.pc = "returned", !.response = responseData]
         ELSE IF stillValid(responseData.session, now, refreshThreshold(config))
         THEN [begun EXCEPT !.pc = "returned",
                            !.now = now,
                            !.result = notRefreshed(responseData.session),
                            !.wrote = hookWrites(responseData, notRefreshed(responseData.session)),
                            !.response = hookResponse(responseData, notRefreshed(responseData.session))]
         ELSE [begun EXCEPT !.pc = "refreshing",
                            !.now = now,
                            !.requests = <<RefreshRequest(responseData.session.id)>>]]
  /\ UNCHANGED <<now, config, cookie, signIn, signIns, lastGrant, boot, call, provider>>

\* The hook handler of read r from the point where the Refresh fetch has
\* settled as res: getAccessToken returns (or throws) and the handler
\* persists and substitutes the updated session if there is one.
RefreshResumes(r, res) ==
  /\ reader[r].pc = "refreshing"
  /\ LET responseData == reader[r].responseData
         refreshed == refreshAccessToken(res)
         result == getAccessTokenResume(responseData.session, reader[r].now, refreshed)
         writes == hookWrites(responseData, result)
     IN /\ reader' = [reader EXCEPT ![r] =
              [@ EXCEPT !.pc = "returned",
                        !.refreshed = refreshed,
                        !.result = result,
                        !.wrote = writes,
                        !.warned = hookWarns(result),
                        !.response = hookResponse(responseData, result)]]
        /\ IF writes # Null
           THEN /\ cookie' = writes
                /\ lastGrant' = [accessToken |-> refreshed.accessToken,
                                 refreshToken |-> refreshed.refreshToken,
                                 expiresIn |-> refreshed.expiresIn,
                                 capturedAt |-> reader[r].now]
           ELSE UNCHANGED <<cookie, lastGrant>>
  /\ UNCHANGED <<now, config, signIn, signIns, boot, call>>

\* The Refresh fetch of read r settles, with any outcome.
RefreshSettles(r, res) == RefreshResumes(r, res) /\ UNCHANGED provider

\* The read's response has been delivered; the request is over.
ReadDone(r) ==
  /\ reader[r].pc = "returned"
  /\ reader' = [reader EXCEPT ![r] = ReaderIdle]
  /\ UNCHANGED <<now, config, cookie, signIn, signIns, lastGrant, boot, call, provider>>

Next ==
  \/ Tick
  \/ SignInStart
  \/ \E res \in TokenFetchOutcomes : LoginSettles(res)
  \/ \E res \in CustomerFetchOutcomes : ProfileSettles(res)
  \/ SignInDone
  \/ \E r \in Readers, path \in RequestPaths : ReadStart(r, path)
  \/ \E r \in Readers, res \in TokenFetchOutcomes : RefreshSettles(r, res)
  \/ \E r \in Readers : ReadDone(r)

Spec == Init /\ [][Next]_vars

\* ---------------------------------------------------- the matcher, applied
\* Any request of the host reaches the matcher.  Paths are put together from
\* up to MaxFragments pieces, so that the word "session" also arises across
\* pieces, in other letter case, and not at all.
MaxFragments == 3
PathFragments ==
  { <<"/">>,
    <<"/", "a", "p", "i", "/">>,
    <<"/", "u", "s", "e", "r", "/">>,
    <<"/", "c", "u", "s", "t", "o", "m", "e", "r", "/">>,
    <<"g", "e", "t", "-">>,
    <<"s", "e", "s", "s", "i", "o", "n">>,
    <<"s", "e", "s", "s">>,
    <<"i", "o", "n">>,
    <<"-", "d", "a", "t", "a">>,
    <<"s", "i", "g", "n", "-", "i", "n">>,
    <<"s", "i", "g", "n", "-", "u", "p">>,
    <<"S", "e", "s", "s", "i", "o", "n">> }

RECURSIVE Concat(_)
Concat(pieces) == IF pieces = << >> THEN << >> ELSE Head(pieces) \o Concat(Tail(pieces))

CandidatePaths ==
  { Concat(pieces) : pieces \in UNION { [1..n -> PathFragments] : n \in 1..MaxFragments } }

\* No request is being served while a function is applied on its own.
noRequests ==
  UNCHANGED <<now, config, cookie, signIn, signIns, reader, lastGrant, boot, provider>>

InitMatcher ==
  /\ now = 0 /\ config \in Configs /\ cookie = Null
  /\ signIn = SignInIdle /\ signIns = 0
  /\ reader = [r \in Readers |-> ReaderIdle]
  /\ lastGrant = Null /\ boot = Null /\ provider = NoProvider
  /\ call \in { [fn |-> "matcher", path |-> p, done |-> FALSE, accepted |-> FALSE] :
                   p \in CandidatePaths }

\* The host asks the matcher about the request's path.
Match ==
  /\ call.fn = "matcher" /\ ~call.done
  /\ call' = [call EXCEPT !.done = TRUE, !.accepted = matcher(call.path)]
  /\ noRequests

SpecMatcher == InitMatcher /\ [][Match]_vars

\* ------------------------------------------- the threshold, applied
\* getAccessToken is decided for sessions with 0..MaxRemainingMinutes
\* minutes between the epoch and their expiry, at two instants, reached
\* either through the hook of a plugin built with `options` or as the
\* exported helper called with the trailing arguments `options`.
MaxRemainingMinutes == 12
ThresholdOptions ==
  { [apiEndpoint |-> "https://api/graphql"] } \cup
  { [apiEndpoint |-> "https://api/graphql", refreshThresholdMinutes |-> m] : m \in {1, 5, 10} }
SessionExpiring(minutes) ==
  [id |-> "R1", userId |-> "u1", createdAt |-> 0, updatedAt |-> 0, token |-> "T1",
   expiresAt |-> minutes * MinutesToMs]

InitThreshold ==
  /\ now \in {0, 2 * MinutesToMs} /\ config \in Configs /\ cookie = Null
  /\ signIn = SignInIdle /\ signIns = 0
  /\ reader = [r \in Readers |-> ReaderIdle]
  /\ lastGrant = Null /\ boot = Null /\ provider = NoProvider
  /\ call \in { [fn |-> "getAccessToken", via |-> v, options |-> o,
                   session |-> SessionExpiring(m), done |-> FALSE, requested |-> FALSE] :
                   v \in {"hook", "helper"}, o \in ThresholdOptions,
                   m \in 0..MaxRemainingMinutes }

\* The hook of a plugin built with call.options hands the session to
\* getAccessToken, which either returns the token or issues the request.
DecideInHook ==
  /\ call.fn = "getAccessToken" /\ call.via = "hook" /\ ~call.done
  /\ call' = [call EXCEPT !.done = TRUE,
                          !.requested = ~stillValid(call.session, now,
                                                    refreshThreshold(call.options))]
  /\ noRequests

\* getAccessToken is called directly, with or without a threshold argument.
DecideInHelper ==
  /\ call.fn = "getAccessToken" /\ call.via = "helper" /\ ~call.done
  /\ call' = [call EXCEPT !.done = TRUE,
                          !.requested = ~stillValid(call.session, now,
                                                    thresholdArgument(call.options))]
  /\ noRequests

SpecThreshold == InitThreshold /\ [][DecideInHook \/ DecideInHelper]_vars

\* ------------------------------------------------- the profile, fetched
\* getUserInfo is applied to every answer the provider can give to the
\* GetCustomer query: the membership list omitted, null, without nodes, or
\* with up to MaxGroups nodes in any order. The repository holds two
\* definitions of getUserInfo (helpers/user-info.ts and the one whose
\* UserInfo type authenticate.ts relies on); either may be the one built.
MaxGroups == 2
GroupNodes ==
  { [id |-> "g1", name |-> "VIP"],
    [id |-> "g2", name |-> "B2B"],
    [id |-> "g3", name |-> "Staff", typename |-> "CustomerGroup"] }
GroupLists ==
  { Undefined, Null, [totalCount |-> 0] } \cup
  { [nodes |-> ns] : ns \in UNION { [1..n -> GroupNodes] : n \in 0..MaxGroups } }
ProfileCustomers ==
  { [id |-> c.id, firstName |-> c.firstName, lastName |-> c.lastName, email |-> c.email,
     customerGroups |-> g] : c \in Customers, g \in GroupLists }
ProfileFetchOutcomes == FetchFailures \cup { FetchNode(c) : c \in ProfileCustomers }

InitProfile ==
  /\ now = 0 /\ config \in Configs /\ cookie = Null
  /\ signIn = SignInIdle /\ signIns = 0
  /\ reader = [r \in Readers |-> ReaderIdle]
  /\ lastGrant = Null /\ boot = Null /\ provider = NoProvider
  /\ call \in { [fn |-> "getUserInfo", module |-> m, res |-> res,
                   done |-> FALSE, result |-> Null] :
                   m \in {"helpers/user-info", "part_006"}, res \in ProfileFetchOutcomes }

\* the definition that maps customerGroups is the one built
FetchProfile ==
  /\ call.fn = "getUserInfo" /\ call.module = "part_006" /\ ~call.done
  /\ call' = [call EXCEPT !.done = TRUE, !.result = getUserInfo(call.res)]
  /\ noRequests

\* the definition in src/helpers/user-info.ts is the one built
FetchProfileWithoutGroups ==
  /\ call.fn = "getUserInfo" /\ call.module = "helpers/user-info" /\ ~call.done
  /\ call' = [call EXCEPT !.done = TRUE, !.result = getUserInfoWithoutGroups(call.res)]
  /\ noRequests

SpecProfile == InitProfile /\ [][FetchProfile \/ FetchProfileWithoutGroups]_vars

\* --------------------------------------- the check, applied twice
\* getAccessToken refreshes a session that is due, the provider answering
\* with a token set whose ttl is up to MaxTtlMinutes minutes, to the second;
\* getAccessToken is then applied to the session it returned, the clock not
\* having moved.
MaxTtlMinutes == 11
SettleNodes ==
  { [accessToken |-> "T2", refreshToken |-> "R2", expiresIn |-> m * 60 + d] :
      m \in 0..MaxTtlMinutes, d \in {0, 1} }

InitSettle ==
  /\ now \in {MinutesToMs, 2 * MinutesToMs} /\ config \in Configs /\ cookie = Null
  /\ signIn = SignInIdle /\ signIns = 0
  /\ reader = [r \in Readers |-> ReaderIdle]
  /\ lastGrant = Null /\ boot = Null /\ provider = NoProvider
  /\ call \in { [fn |-> "getAccessToken twice", options |-> o,
                   session |-> SessionExpiring(m), node |-> n,
                   step |-> 0, requests |-> << >>, first |-> Null, second |-> Null] :
                   o \in ThresholdOptions, m \in {0, 2}, n \in SettleNodes }

\* First application: the session is due, the request is issued and
\* resolves with call.node.
RefreshOnce ==
  /\ call.fn = "getAccessToken twice" /\ call.step = 0
  /\ ~stillValid(call.session, now, thresholdArgument(call.options))
  /\ call' = [call EXCEPT
       !.step = 1,
       !.requests = <<RefreshRequest(call.session.id)>>,
       !.first = getAccessTokenResume(call.session, now,
                                      refreshAccessToken(FetchNode(call.node)))]
  /\ noRequests

\* Second application, to the session the first one returned: up to the
\* return of the current token or the issue of another request.
CheckAgain ==
  /\ call.fn = "getAccessToken twice" /\ call.step = 1
  /\ call' =
       IF stillValid(call.first.session, now, thresholdArgument(call.options))
       THEN [call EXCEPT !.step = 2, !.second = notRefreshed(call.first.session)]
       ELSE [call EXCEPT !.step = 2,
                         !.requests = Append(@, RefreshRequest(call.first.session.id))]
  /\ noRequests

SpecSettle == InitSettle /\ [][RefreshOnce \/ CheckAgain]_vars

\* ------------------------------------------------ the provider, observed
\* The same requests with the provider made explicit.  A request that has
\* been sent is answered by the provider at some instant and the reply
\* arrives at some later step, so the instant a token set is issued, the
\* order in which the provider serves two requests and the order in which
\* their replies arrive are all distinguished.  The provider issues at most
\* MaxIssues token sets, every one with a refresh token and an access token
\* it has not issued before; it may refuse any request, and whether it
\* honours a refresh token that it has already exchanged is its own choice.
MaxIssues == 3
ProviderTtls == {360}
\* The replies to the Profile request: refused, or the one customer.
ProviderCustomerOutcomes ==
  {FetchNoNode} \cup {FetchNode(c) : c \in {c \in Customers : c.id = "u1"}}

\* The plugin is built with the default threshold.
InitProvider ==
  /\ now = 0
  /\ config = [apiEndpoint |-> "https://api/graphql"]
  /\ cookie = Null
  /\ signIn = SignInIdle /\ signIns = 0
  /\ reader = [r \in Readers |-> ReaderIdle]
  /\ lastGrant = Null /\ boot = Null
  /\ call = NoCall
  /\ provider = NoProvider

TokenName(prefix, k) == prefix \o ToString(k)
IssuedNode(k, ttl) ==
  [accessToken |-> TokenName("T", k), refreshToken |-> TokenName("R", k), expiresIn |-> ttl]
\* The provider's record of its k-th token set.
Grant(k, ttl, exchanged) ==
  [node |-> IssuedNode(k, ttl), issuedAt |-> now, exchanged |-> exchanged]

\* The provider accepts the credentials of the Login request in flight.
ProviderIssuesLogin(ttl) ==
  /\ signIn.pc = "login" /\ provider.login = NoReply
  /\ Len(provider.grants) < MaxIssues
  /\ LET k == Len(provider.grants) + 1 IN
       provider' = [provider EXCEPT !.grants = Append(@, Grant(k, ttl, "password")),
                                    !.login = FetchNode(IssuedNode(k, ttl))]
  /\ UNCHANGED <<now, config, cookie, signIn, signIns, reader, lastGrant, boot, call>>

\* The provider refuses the credentials: customerAccessToken is null.
ProviderRejectsLogin ==
  /\ signIn.pc = "login" /\ provider.login = NoReply
  /\ provider' = [provider EXCEPT !.login = FetchNoNode]
  /\ UNCHANGED <<now, config, cookie, signIn, signIns, reader, lastGrant, boot, call>>

\* The reply to the Login request arrives.
LoginArrives ==
  /\ provider.login # NoReply
  /\ LoginResumes(provider.login)
  /\ provider' = [provider EXCEPT !.login = NoReply]

\* The provider exchanges the refresh token presented by read r.
ProviderIssuesRefresh(r, ttl) ==
  /\ reader[r].pc = "refreshing" /\ provider.refresh[r] = NoReply
  /\ Len(provider.grants) < MaxIssues
  /\ LET k == Len(provider.grants) + 1 IN
       provider' = [provider EXCEPT
         !.grants = Append(@, Grant(k, ttl, reader[r].requests[1].refreshToken)),
         !.refresh[r] = FetchNode(IssuedNode(k, ttl))]
  /\ UNCHANGED <<now, config, cookie, signIn, signIns, reader, lastGrant, boot, call>>

\* The provider refuses the refresh token presented by read r.
ProviderRejectsRefresh(r) ==
  /\ reader[r].pc = "refreshing" /\ provider.refresh[r] = NoReply
  /\ provider' = [provider EXCEPT !.refresh[r] = FetchNoNode]
  /\ UNCHANGED <<now, config, cookie, signIn, signIns, reader, lastGrant, boot, call>>

\* The reply to the Refresh request of read r arrives.
RefreshArrives(r) ==
  /\ provider.refresh[r] # NoReply
  /\ RefreshResumes(r, provider.refresh[r])
  /\ provider' = [provider EXCEPT !.refresh[r] = NoReply]

NextProvider ==
  \/ Tick
  \/ SignInStart
  \/ \E ttl \in ProviderTtls : ProviderIssuesLogin(ttl)
  \/ ProviderRejectsLogin
  \/ LoginArrives
  \/ \E res \in ProviderCustomerOutcomes : ProfileSettles(res)
  \/ SignInDone
  \/ \E r \in Readers : ReadStart(r, GetSessionPath)
  \/ \E r \in Readers, ttl \in ProviderTtls : ProviderIssuesRefresh(r, ttl)
  \/ \E r \in Readers : ProviderRejectsRefresh(r)
  \/ \E r \in Readers : RefreshArrives(r)
  \/ \E r \in Readers : ReadDone(r)

SpecProvider == InitProvider /\ [][NextProvider]_vars

\* A session read that starts when no other read is under way: every other
\* read has returned, its result persisted.
ReadStartsAlone(r) ==
  /\ \A q \in Readers \ {r} : reader[q].pc \in {"idle", "returned"}
  /\ ReadStart(r, GetSessionPath)

\* The runs in which session reads do not overlap.
NextSequential ==
  \/ Tick
  \/ SignInStart
  \/ \E ttl \in ProviderTtls : ProviderIssuesLogin(ttl)
  \/ ProviderRejectsLogin
  \/ LoginArrives
  \/ \E res \in ProviderCustomerOutcomes : ProfileSettles(res)
  \/ SignInDone
  \/ \E r \in Readers : ReadStartsAlone(r)
  \/ \E r \in Readers, ttl \in ProviderTtls : ProviderIssuesRefresh(r, ttl)
  \/ \E r \in Readers : ProviderRejectsRefresh(r)
  \/ \E r \in Readers : RefreshArrives(r)
  \/ \E r \in Readers : ReadDone(r)

SpecSequential == InitProvider /\ [][NextSequential]_vars

\* =================================================================== claims
\* The session a read handed to getAccessToken, and whether it did.
checked(r) ==
  /\ reader[r].pc \in {"refreshing", "returned"}
  /\ reader[r].matched
  /\ hasSessionData(reader[r].responseData)
input(r) == reader[r].responseData.session
\* session.expiresAt - now, against the threshold in ms, as of the call
remaining(r) == input(r).expiresAt - reader[r].now
configuredMs == refreshThreshold(config) * 60 * 1000
\* The refresh call of read r has settled, with a token set / without one.
refreshSettled(r) == reader[r].pc = "returned" /\ reader[r].requests # << >>
refreshSucceeded(r) == refreshSettled(r) /\ reader[r].refreshed \notin {Null, Threw}
refreshFailed(r) == refreshSettled(r) /\ reader[r].refreshed \in {Null, Threw}

\* C1: whenever session.expiresAt - now is strictly greater than
\* refreshThresholdMinutes x 60000 ms, getAccessToken returns refreshed =
\* false, accessToken = session.token, no updated session, and has issued no
\* request to the provider.
C1_FreshTokenServedAsIs ==
  \A r \in Readers :
    (checked(r) /\ remaining(r) > configuredMs)
    => /\ reader[r].pc = "returned"
       /\ reader[r].result =
            [accessToken |-> input(r).token, refreshed |-> FALSE, session |-> Undefined]
       /\ reader[r].requests = << >>

C1_Witness ==
  \E r \in Readers :
    /\ checked(r) /\ remaining(r) > configuredMs
    /\ reader[r].pc = "returned"
    /\ reader[r].result.refreshed = FALSE

\* C2 (amended): whenever session.expiresAt - now is at most the threshold
\* (negative included) and the refresh call succeeds, getAccessToken returns
\* refreshed = true, the access token of the refresh response (which differs
\* from the old one only if the provider issued a different one), and an
\* updated session carrying that token whose createdAt equals the original
\* and whose updatedAt is at or after the call's start time.
C2_RefreshSuccess ==
  \A r \in Readers :
    (refreshSucceeded(r) /\ remaining(r) <= configuredMs)
    => /\ reader[r].result.refreshed = TRUE
       /\ reader[r].result.accessToken = reader[r].refreshed.accessToken
       /\ reader[r].result.session # Undefined
       /\ reader[r].result.session.token = reader[r].refreshed.accessToken
       /\ reader[r].result.session.createdAt = input(r).createdAt
       /\ reader[r].result.session.updatedAt >= reader[r].now

\* a refresh of an already expired token succeeded
C2_Witness ==
  \E r \in Readers :
    /\ refreshSucceeded(r) /\ remaining(r) < 0
    /\ reader[r].result.refreshed = TRUE
    /\ reader[r].result.session.updatedAt > input(r).updatedAt

\* C2 as stated: the access token returned by a successful refresh is
\* distinct from the old one.
C2_Original ==
  \A r \in Readers :
    (refreshSucceeded(r) /\ remaining(r) <= configuredMs)
    => /\ reader[r].result.refreshed = TRUE
       /\ reader[r].result.accessToken # input(r).token
       /\ reader[r].result.session # Undefined
       /\ reader[r].result.session.createdAt = input(r).createdAt
       /\ reader[r].result.session.updatedAt >= reader[r].now

\* C3: if the refresh call fails for any reason, getAccessToken returns
\* refreshed = false, the original access token and no updated session; it
\* never ends in an error.
C3_RefreshFailureFallsBack ==
  \A r \in Readers :
    refreshFailed(r)
    => reader[r].result =
         [accessToken |-> input(r).token, refreshed |-> FALSE, session |-> Undefined]

\* C4: the three provider calls never throw: every failure of the fetch
\* (rejection, non-success response, unreadable or absent payload) is
\* returned to the caller as null.
C4_ProviderCallsReturnNull ==
  [][ /\ \A res \in FetchFailures : LoginSettles(res) => signIn'.idpLogin = Null
      /\ \A res \in FetchFailures : ProfileSettles(res) => signIn'.userInfo = Null
      /\ \A res \in FetchFailures : \A r \in Readers :
            RefreshSettles(r, res) => reader'[r].refreshed = Null ]_vars

\* C5: whenever Login yields no result, bootstrap's outcome is the failure
\* {error: "Invalid credentials", status: 401}, no session or user is
\* produced, and Profile fetch is never called.
C5_LoginAbsentIs401 ==
  /\ (signIn.pc = "done" /\ signIn.idpLogin = Null)
     => /\ signIn.result = [error |-> "Invalid credentials", status |-> 401]
        /\ signIn.requests = <<LoginRequest>>
        /\ cookie = Null
  /\ signIn.pc = "profile" => signIn.idpLogin \notin {Null, Threw}

C5_Witness ==
  /\ signIn.pc = "done" /\ signIn.idpLogin = Null
  /\ signIn.result.status = 401

\* Bootstrap has returned, with a Session+User pair.
bootstrapped == signIn.pc = "done" /\ DOMAIN signIn.result = {"user", "session"}

\* C6: whenever Login succeeds and Profile fetch yields no result, the
\* outcome is the failure {error: "Failed to fetch user info", status: 500}
\* and no session or user is produced; the outcome of bootstrap is always
\* exactly one of a Session+User pair, the 401 failure or the 500 failure.
C6_BootstrapOutcomes ==
  signIn.pc = "done"
  => /\ (signIn.idpLogin \notin {Null, Threw} /\ signIn.userInfo = Null)
          => /\ signIn.result = [error |-> "Failed to fetch user info", status |-> 500]
             /\ cookie = Null
     /\ \/ DOMAIN signIn.result = {"user", "session"}
        \/ signIn.result = [error |-> "Invalid credentials", status |-> 401]
        \/ signIn.result = [error |-> "Failed to fetch user info", status |-> 500]

\* C7: for every successful bootstrap the session has id = the Login
\* response's refresh token, token = its access token, expiresAt = the
\* captured now plus expiresIn seconds, userId = the returned user's id = the
\* profile's id, and the user has emailVerified = true.
C7_BootstrapSession ==
  bootstrapped
  => /\ signIn.result.session.id = signIn.idpLogin.refreshToken
     /\ signIn.result.session.token = signIn.idpLogin.accessToken
     /\ signIn.result.session.expiresAt = signIn.now + signIn.idpLogin.expiresIn * 1000
     /\ signIn.result.session.userId = signIn.result.user.id
     /\ signIn.result.user.id = signIn.userInfo.id
     /\ signIn.result.user.emailVerified = TRUE

C7_Witness ==
  /\ bootstrapped
  /\ cookie = signIn.result
  /\ signIn.result.session.expiresAt > signIn.now

\* C8: the persisted session's (refresh token, access token) pair is always
\* the pair of one single Login or Refresh response; a token-lifecycle check
\* hands back both fields of the same response or no session at all.
C8_TokenPairFromOneResponse ==
  /\ cookie # Null
     => /\ cookie.session.id = lastGrant.refreshToken
        /\ cookie.session.token = lastGrant.accessToken
  /\ \A r \in Readers :
       /\ refreshSucceeded(r)
          => /\ reader[r].result.session.id = reader[r].refreshed.refreshToken
             /\ reader[r].result.session.token = reader[r].refreshed.accessToken
       /\ (reader[r].pc = "returned" /\ checked(r) /\ reader[r].refreshed = Null)
          => /\ reader[r].result.session = Undefined
             /\ reader[r].response.session = input(r)

\* a refresh replaced the pair of the bootstrap in the persisted session
C8_Witness ==
  \E r \in Readers :
    /\ refreshSucceeded(r)
    /\ cookie.session = reader[r].result.session
    /\ cookie.session.id # input(r).id
    /\ cookie.session.token # input(r).token

\* C9: across token-lifecycle checks the session's createdAt and userId stay
\* equal to the values set at bootstrap; a refresh changes only id, token,
\* expiresAt and updatedAt.
C9_CreatedAtAndUserIdFrozen ==
  /\ cookie # Null
     => /\ cookie.session.createdAt = boot.createdAt
        /\ cookie.session.userId = boot.userId
  /\ \A r \in Readers :
       refreshSucceeded(r)
       => /\ DOMAIN reader[r].result.session = DOMAIN input(r)
          /\ \A f \in DOMAIN input(r) \ {"id", "token", "expiresAt", "updatedAt"} :
               reader[r].result.session[f] = input(r)[f]

\* a refresh was persisted at a later instant than the bootstrap
C9_Witness ==
  \E r \in Readers :
    /\ refreshSucceeded(r)
    /\ cookie.session = reader[r].result.session
    /\ cookie.session.updatedAt > boot.updatedAt
    /\ cookie.session.expiresAt # boot.expiresAt

\* C10: the persisted session's expiresAt always equals capture time + ttl
\* of the most recent successful Login or Refresh response folded into it,
\* and it changes only when a refresh succeeds: a skipped check or a failed
\* refresh leaves it alone.
C10_ExpiresAtFromLastGrant ==
  /\ [](cookie # Null
         => cookie.session.expiresAt = lastGrant.capturedAt + lastGrant.expiresIn * 1000)
  /\ [][ (cookie # Null /\ cookie'.session.expiresAt # cookie.session.expiresAt)
          => \E r \in Readers :
               /\ reader[r].pc = "refreshing"
               /\ reader'[r].pc = "returned"
               /\ reader'[r].refreshed \notin {Null, Threw} ]_vars

\* a refresh captured later than the bootstrap set the persisted expiry,
\* and a later read of it was skipped or failed
C10_Witness ==
  /\ cookie # Null
  /\ lastGrant.capturedAt > boot.createdAt
  /\ \E r \in Readers :
       /\ reader[r].pc = "returned" /\ checked(r)
       /\ reader[r].refreshed \in {Null, Threw}
       /\ input(r) = cookie.session

\* C11: within one bootstrap the Profile request is issued only after the
\* Login call has completed successfully, it carries exactly the access token
\* returned by that Login, and the two requests are never in flight together.
C11_LoginThenProfile ==
  /\ Cardinality(signIn.pending) <= 1
  /\ (\E i \in 1..Len(signIn.requests) : signIn.requests[i].op = "GetCustomer")
     => /\ signIn.idpLogin \notin {Null, Threw}
        /\ signIn.requests =
             << [op |-> "CustomerAccessTokenCreate"],
                [op |-> "GetCustomer", bearer |-> signIn.idpLogin.accessToken] >>
        /\ [op |-> "CustomerAccessTokenCreate"] \notin signIn.pending

\* the Profile request is in flight, alone, carrying the Login's token
C11_Witness ==
  /\ signIn.pc = "profile"
  /\ signIn.pending = {[op |-> "GetCustomer", bearer |-> signIn.idpLogin.accessToken]}
  /\ Len(signIn.requests) = 2

\* The handler of read r is through and the response is about to go out.
handled(r) == reader[r].pc = "returned" /\ checked(r)

\* C12: if the token-lifecycle check or the provider call throws inside the
\* session-read hook, the original response is passed through unchanged, the
\* error is only logged as a warning, and the read does not fail.
C12_HookSwallowsThrow ==
  \A r \in Readers :
    /\ (handled(r) /\ reader[r].result = Threw)
       => /\ reader[r].response = reader[r].responseData
          /\ reader[r].response # Threw
          /\ reader[r].warned = TRUE
          /\ reader[r].wrote = Null
    /\ reader[r].response # Threw

C12_Witness ==
  \E r \in Readers :
    /\ handled(r) /\ reader[r].result = Threw
    /\ reader[r].response = cookie
    /\ reader[r].warned

\* C13: the hook writes the session cookie exactly when the check reports
\* refreshed = true with an updated session; the write happens before the
\* response is returned and the session in the response is the session
\* persisted; when the check reports refreshed = false nothing is persisted
\* and the response is left as it was.
C13_CookieWrittenIffRefreshed ==
  /\ [](\A r \in Readers :
          handled(r)
          => /\ reader[r].wrote # Null
                <=> /\ reader[r].result # Threw
                    /\ reader[r].result.refreshed = TRUE
                    /\ reader[r].result.session # Undefined
             /\ reader[r].wrote # Null
                => /\ reader[r].wrote.session = reader[r].result.session
                   /\ reader[r].response.session = reader[r].wrote.session
                   /\ reader[r].response.user = reader[r].responseData.user
             /\ (reader[r].result # Threw /\ reader[r].result.refreshed = FALSE)
                => /\ reader[r].wrote = Null
                   /\ reader[r].response = reader[r].responseData)
  /\ [][\A r \in Readers :
          /\ (reader[r].wrote = Null /\ reader'[r].wrote # Null)
             => cookie' = reader'[r].wrote /\ reader'[r].pc = "returned"
          /\ (reader[r].pc = "refreshing" /\ reader'[r].pc = "returned"
                 /\ reader'[r].wrote = Null)
             => cookie' = cookie ]_vars

C13_Witness ==
  \E r \in Readers :
    /\ handled(r)
    /\ reader[r].wrote # Null
    /\ cookie = reader[r].wrote
    /\ reader[r].response.session = cookie.session
    /\ reader[r].response.session # reader[r].responseData.session

C15_LastWriteWins ==
  [][\A r \in Readers :
       (reader[r].pc = "refreshing" /\ reader'[r].pc = "returned"
          /\ reader'[r].refreshed \notin {Null, Threw})
       => /\ cookie'.session.id = reader'[r].refreshed.refreshToken
          /\ cookie'.session.token = reader'[r].refreshed.accessToken
          /\ cookie'.session.expiresAt =
               reader[r].now + reader'[r].refreshed.expiresIn * 1000
          /\ cookie'.user = reader[r].responseData.user ]_vars

\* both reads have a refresh in flight presenting the same refresh token,
\* after the first of them saw the token within the threshold
C15_Witness ==
  /\ \A r \in Readers : reader[r].pc = "refreshing" /\ remaining(r) <= configuredMs
  /\ \A r, q \in Readers : reader[r].requests = reader[q].requests
  /\ \A r \in Readers : reader[r].requests[1].refreshToken = cookie.session.id

\* C16: the sign-in endpoint persists a session cookie only when bootstrap
\* succeeds and then answers {user, expiresAt}; when bootstrap fails it
\* writes no cookie and answers {error} with the failure's status, 401 with
\* "Invalid credentials" or 500 with "Failed to fetch user info".
C16_SignInAnswers ==
  signIn.pc = "done"
  => IF signIn.result # Threw /\ DOMAIN signIn.result = {"user", "session"}
     THEN /\ signIn.wrote = signIn.result
          /\ signIn.response =
               [body |-> [user |-> signIn.result.user,
                          expiresAt |-> signIn.result.session.expiresAt],
                status |-> 200]
     ELSE /\ signIn.wrote = Null
          /\ cookie = Null
          /\ signIn.response \in
               { [body |-> [error |-> "Invalid credentials"], status |-> 401],
                 [body |-> [error |-> "Failed to fetch user info"], status |-> 500] }

\* The path of read r is one the hook intercepts.
intercepted(r) ==
  reader[r].path = GetSessionPath \/ includes(reader[r].path, SessionWord)

\* C17 (amended): for every response on a path that the hook's matcher
\* accepts and that carries a session object with token and expiresAt
\* fields, the token-lifecycle check is invoked before the response is
\* returned to the caller.
C17_CheckedBeforeReturn ==
  \A r \in Readers :
    (reader[r].pc = "returned" /\ intercepted(r)
       /\ hasSessionData(reader[r].responseData))
    => reader[r].result # Null

C17_Witness ==
  \E r \in Readers :
    /\ reader[r].pc = "returned" /\ intercepted(r)
    /\ hasSessionData(reader[r].responseData)
    /\ reader[r].result # Null /\ reader[r].result # Threw

\* C17 as stated: every response that carries such a session object is
\* checked, whatever the path of its request.
C17_Original ==
  \A r \in Readers :
    (reader[r].pc = "returned" /\ hasSessionData(reader[r].responseData))
    => reader[r].result # Null

\* The path has the seven letters of "session" at consecutive positions.
containsSession(path) ==
  \E i \in 0..(Len(path) - 7) :
    /\ path[i + 1] = "s" /\ path[i + 2] = "e" /\ path[i + 3] = "s" /\ path[i + 4] = "s"
    /\ path[i + 5] = "i" /\ path[i + 6] = "o" /\ path[i + 7] = "n"

\* C18: the matcher accepts a request exactly when its path is
\* "/get-session" or contains the substring "session"; it accepts
\* "/api/session" and "/user/session-data" and rejects "/sign-in",
\* "/sign-up" and the sign-in endpoint's own "/customer/sign-in".
C18_MatcherAcceptsSessionPaths ==
  (call.fn = "matcher" /\ call.done)
  => /\ call.accepted
          <=> (call.path = <<"/", "g", "e", "t", "-", "s", "e", "s", "s", "i", "o", "n">> \/ containsSession(call.path))
     /\ call.path \in { <<"/", "a", "p", "i", "/", "s", "e", "s", "s", "i", "o", "n">>,
                        <<"/", "u", "s", "e", "r", "/", "s", "e", "s", "s", "i", "o", "n", "-", "d", "a", "t", "a">> }
          => call.accepted
     /\ call.path \in { <<"/", "s", "i", "g", "n", "-", "i", "n">>,
                        <<"/", "s", "i", "g", "n", "-", "u", "p">>,
                        <<"/", "c", "u", "s", "t", "o", "m", "e", "r", "/", "s", "i", "g", "n", "-", "i", "n">> }
          => ~call.accepted

C18_Witness ==
  /\ call.fn = "matcher" /\ call.done
  /\ call.path = <<"/", "u", "s", "e", "r", "/", "s", "e", "s", "s", "i", "o", "n", "-", "d", "a", "t", "a">>
  /\ call.accepted

\* The threshold given to a decided call, and the validity its session had.
given(c) == "refreshThresholdMinutes" \in DOMAIN c.options
left(c) == c.session.expiresAt - now

\* C19: when refreshThresholdMinutes is not given, both the plugin hook and
\* getAccessToken use a threshold of 5 minutes; a configured value replaces
\* it, so a session with 8 minutes of validity left is not refreshed under
\* the default and is refreshed under a threshold of 10.
C19_DefaultThresholdIsFive ==
  (call.fn = "getAccessToken" /\ call.done)
  => /\ ~given(call) => (call.requested <=> left(call) <= 5 * 60000)
     /\ given(call)
          => (call.requested <=> left(call) <= call.options.refreshThresholdMinutes * 60000)
     /\ (left(call) = 8 * 60000 /\ ~given(call)) => ~call.requested
     /\ (left(call) = 8 * 60000 /\ given(call) /\ call.options.refreshThresholdMinutes = 10)
          => call.requested

\* a plugin built with threshold 10 refreshes the session that has 8 minutes
C19_Witness ==
  /\ call.fn = "getAccessToken" /\ call.done /\ call.via = "hook"
  /\ given(call) /\ call.options.refreshThresholdMinutes = 10
  /\ left(call) = 8 * 60000
  /\ call.requested

\* getUserInfo has returned a profile, for a payload with or without a
\* membership list.
profiled == call.fn = "getUserInfo" /\ call.done /\ "id" \in DOMAIN call.result
listed == "nodes" \in DOMAIN call.res.node.customerGroups

\* C20: the profile getUserInfo returns always has groups: one {id, name} per
\* node of the provider's membership list, in the provider's order, and the
\* empty collection when the payload has no membership list.
C20_GroupsFlatOrderedNeverAbsent ==
  profiled
  => /\ "groups" \in DOMAIN call.result
     /\ listed
          => /\ Len(call.result.groups) = Len(call.res.node.customerGroups.nodes)
             /\ \A i \in 1..Len(call.result.groups) :
                  /\ DOMAIN call.result.groups[i] = {"id", "name"}
                  /\ call.result.groups[i].id = call.res.node.customerGroups.nodes[i].id
                  /\ call.result.groups[i].name = call.res.node.customerGroups.nodes[i].name
     /\ ~listed => call.result.groups = << >>

\* C21: an invocation of getAccessToken issues at most one Token refresh
\* request and captures now once: a request in flight is followed by the
\* return (or throw) of the invocation and by nothing else, a failed refresh
\* leaves exactly the one request issued, and the timestamps of the updated
\* session come from the now captured before the request, whatever the
\* clock shows when the request resolves.
C21_OneRequestOneNow ==
  /\ [](\A r \in Readers :
          /\ Len(reader[r].requests) <= 1
          /\ reader[r].pc = "refreshing" => Len(reader[r].requests) = 1
          /\ refreshFailed(r) => Len(reader[r].requests) = 1
          /\ refreshSucceeded(r)
               => /\ reader[r].result.session.updatedAt = reader[r].now
                  /\ reader[r].result.session.expiresAt =
                       reader[r].now + reader[r].refreshed.expiresIn * 1000)
  /\ [][\A r \in Readers :
          (reader[r].pc = "refreshing" /\ reader'[r] # reader[r])
          => /\ reader'[r].pc = "returned"
             /\ reader'[r].requests = reader[r].requests
             /\ reader'[r].now = reader[r].now]_vars

\* a refresh failed after the clock had moved on, with one request issued
C21_Witness ==
  \E r \in Readers :
    /\ refreshFailed(r)
    /\ Len(reader[r].requests) = 1
    /\ reader[r].now < now

\* Read r has a refresh request in flight; the step taken is the one in
\* which that request resolves.
inFlight(r) == reader[r].pc = "refreshing"
resolves(r) == inFlight(r) /\ reader'[r].pc = "returned"

\* C23: no partial session mutation is observable. The session handed to
\* getAccessToken is the same value before, during and after the request;
\* the persisted session changes only in the step in which a refresh request
\* resolves with a token set (or bootstrap completes), and then to the whole
\* updated session that getAccessToken returned; the step in which a request
\* fails changes nothing that is persisted, and a request that never
\* resolves changes nothing at all.
C23_NoPartialSessionMutation ==
  [][/\ \A r \in Readers :
          /\ (inFlight(r) /\ reader'[r].pc # "idle")
               => reader'[r].responseData = reader[r].responseData
          /\ (resolves(r) /\ reader'[r].refreshed \in {Null, Threw})
               => /\ cookie' = cookie
                  /\ reader'[r].wrote = Null
                  /\ reader'[r].response = reader[r].responseData
          /\ (resolves(r) /\ reader'[r].refreshed \notin {Null, Threw})
               => /\ cookie'.session = reader'[r].result.session
                  /\ cookie'.session.id = reader'[r].refreshed.refreshToken
                  /\ cookie'.session.token = reader'[r].refreshed.accessToken
                  /\ cookie'.session.expiresAt =
                       reader[r].now + reader'[r].refreshed.expiresIn * 1000
                  /\ cookie'.session.updatedAt = reader[r].now
     /\ cookie' # cookie
          => \/ \E r \in Readers : resolves(r) /\ reader'[r].refreshed \notin {Null, Threw}
             \/ signIn.pc = "profile" /\ signIn'.pc = "done"]_vars

\* a refresh failed while the session it was given is still the persisted one
C23_Witness ==
  \E r \in Readers :
    /\ refreshFailed(r)
    /\ cookie # Null
    /\ cookie.session = input(r)
    /\ reader[r].wrote = Null

\* The step in which Login returns a token set, and the step in which the
\* Profile fetch returns a profile and bootstrap builds its result.
loginReturns == signIn.pc = "login" /\ signIn'.pc = "profile"
profileReturns ==
  /\ signIn.pc = "profile" /\ signIn'.pc = "done"
  /\ signIn'.result # Threw /\ "error" \notin DOMAIN signIn'.result

\* C24 (amended): the single now that stamps the user's and the session's
\* createdAt and updatedAt, and from which expiresAt is computed, is the
\* clock at the instant Login returns its token set, before the Profile
\* request is issued; it is not read again when the profile arrives, and all
\* four timestamps of the result equal that one instant.
C24_NowCapturedWhenLoginReturns ==
  /\ [](bootstrapped
          => /\ signIn.result.user.createdAt = signIn.now
             /\ signIn.result.user.updatedAt = signIn.now
             /\ signIn.result.session.createdAt = signIn.now
             /\ signIn.result.session.updatedAt = signIn.now
             /\ signIn.result.session.expiresAt =
                  signIn.now + signIn.idpLogin.expiresIn * 1000)
  /\ [][/\ loginReturns
            => /\ signIn'.now = now
               /\ Len(signIn.requests) = 1 /\ Len(signIn'.requests) = 2
        /\ profileReturns => signIn'.now = signIn.now]_vars

\* bootstrap has completed with a now captured one tick into the run, and
\* the clock has moved since
C24_Witness ==
  /\ bootstrapped
  /\ signIn.now > 0
  /\ signIn.result.session.createdAt = signIn.now
  /\ signIn.now < now

\* C24 as stated: the four timestamps are the clock at the instant the
\* Profile fetch has returned a profile.
C24_Original ==
  [][profileReturns
       => /\ signIn'.result.user.createdAt = now
          /\ signIn'.result.user.updatedAt = now
          /\ signIn'.result.session.createdAt = now
          /\ signIn'.result.session.updatedAt = now]_vars

\* The threshold of a twice-applied check, in minutes.
appliedMinutes(c) ==
  IF "refreshThresholdMinutes" \in DOMAIN c.options
  THEN c.options.refreshThresholdMinutes ELSE 5

\* C27: a successful refresh settles the session. Applied again at the same
\* instant to the session it returned, getAccessToken answers refreshed =
\* false with the new access token and issues no request whenever the new ttl
\* in ms exceeds the threshold in ms; when the ttl is at or below the
\* threshold it issues another refresh request, presenting the new refresh
\* token.
C27_RefreshSettles ==
  (call.fn = "getAccessToken twice" /\ call.step = 2)
  => /\ call.first.refreshed /\ call.first.accessToken = call.node.accessToken
     /\ call.node.expiresIn * 1000 > appliedMinutes(call) * 60 * 1000
          => /\ call.second =
                  [accessToken |-> call.node.accessToken, refreshed |-> FALSE,
                   session |-> Undefined]
             /\ Len(call.requests) = 1
     /\ call.node.expiresIn * 1000 <= appliedMinutes(call) * 60 * 1000
          => /\ Len(call.requests) = 2
             /\ call.requests[2].refreshToken = call.node.refreshToken
             /\ call.second = Null

\* the new ttl is one second above the default threshold and the second
\* application returns the new token without a request
C27_Witness ==
  /\ call.fn = "getAccessToken twice" /\ call.step = 2
  /\ "refreshThresholdMinutes" \notin DOMAIN call.options
  /\ call.node.expiresIn = 301
  /\ call.second # Null /\ call.second.refreshed = FALSE
  /\ Len(call.requests) = 1

\* The refresh token read r presented, the token sets the provider has
\* issued so far, and the refresh tokens it has exchanged for new ones.
presented(r) == reader[r].requests[1].refreshToken
issued == { provider.grants[k] : k \in 1..Len(provider.grants) }
latestIssued == provider.grants[Len(provider.grants)]
exchangedHandles == { g.exchanged : g \in issued }

quiescent == \A r \in Readers : reader[r].pc \in {"idle", "returned"}

\* C25: once the concurrent reads of a session are through, the refresh
\* token held in the persisted session is the one the provider issued last
\* for it.
C25_PersistedHandleIsLatestIssued ==
  (cookie # Null /\ quiescent)
  => cookie.session.id = latestIssued.node.refreshToken

\* The instant at which the provider lets an access token it issued expire.
trueExpiry(accessToken) ==
  LET g == CHOOSE g \in issued : g.node.accessToken = accessToken
  IN g.issuedAt + g.node.expiresIn * 1000

\* C26: the expiresAt recorded in a session that bootstrap or a successful
\* refresh produced is never later than the instant the provider issued the
\* session's access token plus its ttl.
C26_ExpiryNeverOverstated ==
  /\ cookie # Null => cookie.session.expiresAt <= trueExpiry(cookie.session.token)
  /\ \A r \in Readers :
       refreshSucceeded(r)
       => reader[r].result.session.expiresAt <= trueExpiry(reader[r].result.session.token)

====
